---------------------------- MODULE Spec2Model ----------------------------
(***************************************************************************)
(* A model of the render backend of the Olive video editor:                *)
(*   RenderBackend        (src/app/render/backend/renderbackend.cpp)       *)
(*   VideoRenderBackend   (src/unnamed/part_000, videorenderbackend.cpp)   *)
(* together with the parts of the worker, the frame cache and the viewer   *)
(* node that the backend drives.                                           *)
(*                                                                         *)
(* Time is exact (the code's rational).  The model measures it in units of *)
(* 1/denominator of the time base, so a time is an integer and the time    *)
(* base is TimeBase units long.  A time that is a multiple of TimeBase is  *)
(* "aligned"; the other integers are the unaligned times.                  *)
(*                                                                         *)
(* Every procedure of the backend is an operator from a backend record to  *)
(* a backend record (or a pair <<record, return value>>), so that a        *)
(* procedure that calls another one (InvalidateCache -> CacheNext ->       *)
(* Init, UpdateNodeInputs, GenerateData -> Compile) is modelled whole.     *)
(* The actions at the end apply one public operation each.                 *)
(***************************************************************************)
EXTENDS Integers, Sequences, FiniteSets, TLC

(***************************************************************************)
(* Bounds of the model.                                                    *)
(***************************************************************************)
MaxTime == 4            \* times are 0 .. MaxTime (sequence lengths too)
TimeBase == 2           \* params_.time_base(), in time units
MaxQueue == 4           \* cache_queue_ never grows beyond this in the model
IdealThreadCount == 2   \* QThread::idealThreadCount()
MaxRunning == 4         \* OS threads alive at once (started, never quit)
MaxNodes == 6           \* length of source_node_list_ / copied_graph_
MaxInbox == 2           \* queued invocations per worker, completions in flight
NumHashes == 2          \* distinct content hashes a render can produce

(***************************************************************************)
(* Program constants.                                                      *)
(***************************************************************************)
BehindPenalty == 5      \* "diff = qAbs(diff) * 5"
ViewerDivider == 2      \* divider ConnectViewer passes to SetParameters

(***************************************************************************)
(* Values.                                                                 *)
(***************************************************************************)
NoNode == 0                         \* nullptr (a node pointer)
NoTime == 0 - 1                     \* "no time point" in the bookkeeping
NoRange == << 0 - 1, 0 - 1 >>
NoHash == 0                         \* the empty QByteArray
Viewers == {1, 2}                   \* the ViewerOutput nodes of the project
Times == 0 .. MaxTime
Hashes == 1 .. NumHashes
EmptyId == << >>                    \* the empty QString

\* The copy Node::copy() makes of live node n.  Copies are distinct from
\* every live node and from nullptr.
CopyOf(n) == 100 + n

\* Node::GetDependencies() of a viewer: the nodes its output depends on.
GetDependencies(v) == << 10 + v >>

Abs(x) == IF x < 0 THEN 0 - x ELSE x
Min(a, b) == IF a < b THEN a ELSE b
Max(a, b) == IF a > b THEN a ELSE b
Range(s) == { s[i] : i \in 1 .. Len(s) }

(***************************************************************************)
(* Render parameters.  VideoRenderingParams of width, height, pixel format *)
(* and divider; the time base is TimeBase for every parameter set.         *)
(***************************************************************************)
MkParams(w, h, f, d) == [width |-> w, height |-> h, format |-> f, divider |-> d]

\* A default-constructed VideoRenderingParams.
DefaultParams == MkParams(0, 0, 0, 0)

\* VideoRenderingParams::is_valid()
ParamsValid(p) == p.width > 0 /\ p.height > 0 /\ p.divider > 0

\* The format ConnectViewer hard-codes (olive::PIX_FMT_RGBA16F).
PixFmtRGBA16F == 3

\* ViewerOutput::video_params() of each viewer: its width and height.
ViewerVideoParams(v) == IF v = 1 THEN << 1, 23 >> ELSE << 12, 3 >>

\* The parameter sets SetParameters is called with directly.
ParamChoices ==
  { DefaultParams,
    MkParams(1, 23, PixFmtRGBA16F, ViewerDivider),
    MkParams(12, 3, PixFmtRGBA16F, ViewerDivider) }

(***************************************************************************)
(* Cache ID.  QCryptographicHash is fed a sequence of bytes; the model     *)
(* keeps the bytes themselves as the ID (SHA-1 taken as injective), so two *)
(* IDs are equal exactly when the hashed bytes are equal.                  *)
(***************************************************************************)
RECURSIVE NumberToUtf8(_)
\* QString::number(n).toUtf8() for n >= 0: the decimal digits, as bytes.
NumberToUtf8(n) ==
  IF n < 10 THEN << 48 + n >>
  ELSE NumberToUtf8(n \div 10) \o << 48 + (n % 10) >>

\* The cache names used: "" and "Test" (the constructor's), as UTF-8 bytes.
NameEmpty == << >>
NameTest == << 84, 101, 115, 116 >>
NameChoices == { NameEmpty, NameTest }

\* QDateTime::currentMSecsSinceEpoch() at the calls of SetCacheName.
ClockChoices == { 1, 2 }

(***************************************************************************)
(* The state.                                                              *)
(***************************************************************************)
VARIABLES
  started_,                 \* RenderBackend::started_
  caching_,                 \* RenderBackend::caching_
  compiled_,                \* RenderBackend::compiled_
  recompile_queued_,        \* RenderBackend::recompile_queued_
  value_update_queued_,     \* RenderBackend::value_update_queued_
  value_update_range_,      \* RenderBackend::value_update_range_, <<in, out>>
  viewer_node_,             \* RenderBackend::viewer_node_ (live root)
  copied_viewer_node_,      \* RenderBackend::copied_viewer_node_
  source_node_list_,        \* RenderBackend::source_node_list_
  copied_graph_,            \* RenderBackend::copied_graph_.nodes()
  threads_,                 \* RenderBackend::threads_: how many entries it holds
  running_threads,          \* QThreads started and not yet quit (in threads_ or not)
  processors_,              \* RenderBackend::processors_: the workers
  decoder_cache_,           \* RenderBackend::decoder_cache_: how many decoders it holds
  cache_name_,              \* RenderBackend::cache_name_
  cache_time_,              \* RenderBackend::cache_time_
  cache_id_,                \* RenderBackend::cache_id_
  params_,                  \* VideoRenderBackend::params_
  cache_queue_,             \* RenderBackend::cache_queue_ (each entry TimeRange(r, r))
  last_time_requested_,     \* VideoRenderBackend::last_time_requested_
  cache_frame_load_buffer_, \* VideoRenderBackend::cache_frame_load_buffer_: allocated?
  frame_cache_,             \* VideoRenderFrameCache: [id, map]
  completions,              \* worker signals queued for the backend's thread
  disk,                     \* the cache files on disk: {<<cache id, hash>>}
  viewer_length,            \* ViewerOutput::Length() of each viewer
  close_pc,                 \* where the coordinator thread is inside Close():
                            \* 0 outside it, k in "threads_[k]->wait()"
  call                      \* the last operation applied and what it returned

vars ==
  << started_, caching_, compiled_, recompile_queued_, value_update_queued_,
     value_update_range_, viewer_node_, copied_viewer_node_, source_node_list_,
     copied_graph_, threads_, running_threads, processors_, decoder_cache_,
     cache_name_, cache_time_, cache_id_, params_, cache_queue_,
     last_time_requested_, cache_frame_load_buffer_, frame_cache_, completions,
     disk, viewer_length, close_pc, call >>

\* The backend object (and what its procedures touch) as one record.
Backend ==
  [ started_ |-> started_, caching_ |-> caching_, compiled_ |-> compiled_,
    recompile_queued_ |-> recompile_queued_,
    value_update_queued_ |-> value_update_queued_,
    value_update_range_ |-> value_update_range_,
    viewer_node_ |-> viewer_node_, copied_viewer_node_ |-> copied_viewer_node_,
    source_node_list_ |-> source_node_list_, copied_graph_ |-> copied_graph_,
    threads_ |-> threads_, running_threads |-> running_threads,
    processors_ |-> processors_, decoder_cache_ |-> decoder_cache_,
    cache_name_ |-> cache_name_, cache_time_ |-> cache_time_,
    cache_id_ |-> cache_id_, params_ |-> params_, cache_queue_ |-> cache_queue_,
    last_time_requested_ |-> last_time_requested_,
    cache_frame_load_buffer_ |-> cache_frame_load_buffer_,
    frame_cache_ |-> frame_cache_, completions |-> completions, disk |-> disk,
    viewer_length |-> viewer_length, close_pc |-> close_pc,
    dispatched |-> NoTime, copied |-> 0, refreshed |-> NoRange ]

\* The backend's variables take the values of record b.
Commit(b) ==
  /\ started_' = b.started_
  /\ caching_' = b.caching_
  /\ compiled_' = b.compiled_
  /\ recompile_queued_' = b.recompile_queued_
  /\ value_update_queued_' = b.value_update_queued_
  /\ value_update_range_' = b.value_update_range_
  /\ viewer_node_' = b.viewer_node_
  /\ copied_viewer_node_' = b.copied_viewer_node_
  /\ source_node_list_' = b.source_node_list_
  /\ copied_graph_' = b.copied_graph_
  /\ threads_' = b.threads_
  /\ running_threads' = b.running_threads
  /\ processors_' = b.processors_
  /\ decoder_cache_' = b.decoder_cache_
  /\ cache_name_' = b.cache_name_
  /\ cache_time_' = b.cache_time_
  /\ cache_id_' = b.cache_id_
  /\ params_' = b.params_
  /\ cache_queue_' = b.cache_queue_
  /\ last_time_requested_' = b.last_time_requested_
  /\ cache_frame_load_buffer_' = b.cache_frame_load_buffer_
  /\ frame_cache_' = b.frame_cache_
  /\ completions' = b.completions
  /\ disk' = b.disk
  /\ viewer_length' = b.viewer_length
  /\ close_pc' = b.close_pc

\* The model's bounds hold of record b (the guard that caps what would grow
\* without bound).
WithinBounds(b) ==
  /\ Len(b.cache_queue_) <= MaxQueue
  /\ b.running_threads <= MaxRunning
  /\ Len(b.source_node_list_) <= MaxNodes
  /\ Len(b.copied_graph_) <= MaxNodes
  /\ Len(b.completions) <= MaxInbox
  /\ \A i \in 1 .. Len(b.processors_) : Len(b.processors_[i].inbox) <= MaxInbox

(***************************************************************************)
(* Frame cache (VideoRenderFrameCache): the namespace it is bound to and   *)
(* the table time -> hash.                                                 *)
(***************************************************************************)
EmptyTimeMap == [t \in Times |-> NoHash]

\* VideoRenderFrameCache::TimeToHash
TimeToHash(fc, t) == IF t \in Times THEN fc.map[t] ELSE NoHash

\* VideoRenderFrameCache::CachePathName: the path is made of the cache ID the
\* cache is bound to and the hash.
CachePathName(fc, hash) == << fc.id, hash >>

\* VideoRenderFrameCache::Truncate: drop the entries after time len.
Truncate(fc, len) ==
  [fc EXCEPT !.map = [t \in Times |-> IF t > len THEN NoHash ELSE fc.map[t]]]

\* VideoRenderFrameCache::SetCacheID
SetCacheID(fc, id) == [fc EXCEPT !.id = id]

\* VideoRenderFrameCache::SetHash
SetHash(fc, t, hash) == [fc EXCEPT !.map[t] = hash]

(***************************************************************************)
(* Workers (RenderWorker / VideoRenderWorker).  A worker lives in its own  *)
(* thread: invocations sent to it wait in its event queue (inbox) until    *)
(* the thread takes them; "working" is the flag IsAvailable() reads.       *)
(***************************************************************************)
\* inbox: the invocations waiting; working: inside a job; cur: the time of the
\* job; hash: the content hash it is evaluating (NoHash: none); held: the nodes
\* of the snapshot whose processing lock it holds, innermost last.
NewWorker(p) ==
  [inbox |-> << >>, working |-> FALSE, cur |-> NoTime, params |-> p,
   hash |-> NoHash, held |-> << >>]

\* RenderWorker::IsAvailable
IsAvailable(w) == ~w.working

RenderJob(t) == [kind |-> "Render", time |-> t]
SiblingJob(t) == [kind |-> "RenderAsSibling", time |-> t]

(***************************************************************************)
(* RenderBackend::SequenceLength                                           *)
(***************************************************************************)
SequenceLength(b) ==
  IF b.viewer_node_ = NoNode THEN 0 ELSE b.viewer_length[b.viewer_node_]

(***************************************************************************)
(* RenderBackend::Close                                                    *)
(***************************************************************************)
\* VideoRenderBackend::CloseInternal
CloseInternal(b) == [b EXCEPT !.cache_frame_load_buffer_ = FALSE]

\* A Close() that forgets the workers: it leaves processors_ as it is.
CloseKeepsWorkers(b) ==
  IF ~b.started_ THEN b
  ELSE LET b1 == CloseInternal([b EXCEPT !.started_ = FALSE])
       IN  [b1 EXCEPT !.decoder_cache_ = 0,
                      !.running_threads = @ - b1.threads_,
                      !.threads_ = 0]

Close(b) ==
  IF ~b.started_ THEN b
  ELSE LET b1 == CloseInternal([b EXCEPT !.started_ = FALSE])
       IN  \* every thread of threads_ is quit and waited for, then the list
           \* is cleared; every worker is deleted
           [b1 EXCEPT !.decoder_cache_ = 0,
                      !.running_threads = @ - b1.threads_,
                      !.threads_ = 0,
                      !.processors_ = << >>]

(***************************************************************************)
(* RenderBackend::Close, step by step.  "thread->wait()" has no time-out:  *)
(* it returns when the thread's event loop has returned, and the loop      *)
(* returns (after quit()) only once the worker living in the thread is     *)
(* back from the job it is running.  Worker i lives in thread i            *)
(* (InitWorkers).  Close(b) above is the whole call when no wait blocks.   *)
(***************************************************************************)
\* The worker living in thread k is inside a job.
ThreadBusy(b, k) == k <= Len(b.processors_) /\ ~IsAvailable(b.processors_[k])

\* The end of Close(): "threads_.clear()", every worker deleted,
\* "processors_.clear()".
CloseEnd(b) ==
  [b EXCEPT !.threads_ = 0, !.processors_ = << >>, !.close_pc = 0]

\* Close() up to its first wait: the early return, or started_, CloseInternal,
\* the decoder cache, and quit() on the first thread.
CloseBegin(b) ==
  IF ~b.started_ THEN b
  ELSE LET b1 == [CloseInternal([b EXCEPT !.started_ = FALSE])
                    EXCEPT !.decoder_cache_ = 0]
       IN  IF b1.threads_ = 0 THEN CloseEnd(b1) ELSE [b1 EXCEPT !.close_pc = 1]

\* "thread->wait()" on thread close_pc returns: the thread has finished.
CloseWaitReturns(b) == ~ThreadBusy(b, b.close_pc)

\* The wait on thread close_pc has returned: quit() and wait() on the next
\* thread, or the end of Close().
CloseWait(b) ==
  LET b1 == [b EXCEPT !.running_threads = @ - 1]
  IN  IF b.close_pc < b.threads_
        THEN [b1 EXCEPT !.close_pc = @ + 1]
        ELSE CloseEnd(b1)

(***************************************************************************)
(* RenderBackend::Init.  ok is what the subclass's InitInternal returns.   *)
(***************************************************************************)
\* VideoRenderBackend::InitInternal: the load buffer is sized; returns true.
VideoInitInternal(b) == [b EXCEPT !.cache_frame_load_buffer_ = TRUE]

\* The workers the backend subclass creates in its InitInternal: one per thread,
\* each given the current parameters.
CreateWorkers(b) ==
  [b EXCEPT !.processors_ = @ \o [i \in 1 .. b.threads_ |-> NewWorker(b.params_)]]

\* InitInternal of the backend subclass, which returns ok: when it succeeds it
\* has run VideoRenderBackend::InitInternal and created the workers.
InitInternal(b, ok) == IF ok THEN CreateWorkers(VideoInitInternal(b)) ELSE b

\* RenderBackend::InitWorkers: connects each worker and moves it to its thread.
InitWorkers(b) == b

\* <<backend, return value>>
Init(b, ok) ==
  IF b.started_ THEN << b, TRUE >>
  ELSE LET \* threads_.resize(idealThreadCount) and every entry replaced by a
           \* new, started QThread: entries that were there are overwritten,
           \* their threads keep running
           b1 == [b EXCEPT !.threads_ = IdealThreadCount,
                           !.running_threads = @ + IdealThreadCount]
           b2 == [InitInternal(b1, ok) EXCEPT !.started_ = ok]
           b3 == InitWorkers(b2)
           b4 == IF ~b3.started_ THEN Close(b3) ELSE b3
       IN  << b4, b4.started_ >>

(***************************************************************************)
(* RenderBackend::Decompile and Compile.  cok is what CompileInternal      *)
(* returns.                                                                *)
(***************************************************************************)
Decompile(b) ==
  IF ~b.compiled_ THEN b
  ELSE [b EXCEPT !.copied_graph_ = << >>,
                 !.copied_viewer_node_ = NoNode,
                 !.source_node_list_ = << >>,
                 !.compiled_ = FALSE]

\* A Compile without "else if (compiled_) return true": it copies every time.
CompileAlwaysCopies(b, cok) ==
  LET b0 == IF b.recompile_queued_
              THEN [Decompile(b) EXCEPT !.recompile_queued_ = FALSE]
              ELSE b
      src == b0.source_node_list_ \o << b0.viewer_node_ >>
               \o GetDependencies(b0.viewer_node_)
      graph == b0.copied_graph_ \o [i \in 1 .. Len(src) |-> CopyOf(src[i])]
      b1 == [b0 EXCEPT !.source_node_list_ = src,
                       !.copied_graph_ = graph,
                       !.copied = Len(src),
                       !.copied_viewer_node_ = Head(graph),
                       !.compiled_ = cok]
      b2 == IF ~b1.compiled_ THEN Decompile(b1) ELSE b1
  IN  << b2, b2.compiled_ >>

\* <<backend, return value>>
Compile(b, cok) ==
  LET b0 == IF b.recompile_queued_
              THEN [Decompile(b) EXCEPT !.recompile_queued_ = FALSE]
              ELSE b
  IN  IF ~b.recompile_queued_ /\ b.compiled_ THEN << b, TRUE >>
      ELSE LET src == b0.source_node_list_ \o << b0.viewer_node_ >>
                        \o GetDependencies(b0.viewer_node_)
               \* "foreach (Node* n, source_node_list_)": every node of the
               \* list is copied and the copy added to the graph
               graph == b0.copied_graph_ \o [i \in 1 .. Len(src) |-> CopyOf(src[i])]
               b1 == [b0 EXCEPT !.source_node_list_ = src,
                                !.copied_graph_ = graph,
                                !.copied = Len(src),
                                !.copied_viewer_node_ = Head(graph),
                                !.compiled_ = cok]
               b2 == IF ~b1.compiled_ THEN Decompile(b1) ELSE b1
           IN  << b2, b2.compiled_ >>

(***************************************************************************)
(* RenderBackend::QueueValueUpdate, UpdateNodeInputs, QueueRecompile       *)
(***************************************************************************)
QueueValueUpdate(b, range) ==
  [b EXCEPT !.value_update_queued_ = TRUE, !.value_update_range_ = range]

\* Every node of the snapshot takes the values of its source node and drops
\* the cached values of its outputs that overlap value_update_range_.
UpdateNodeInputs(b) ==
  IF b.value_update_queued_
    THEN [b EXCEPT !.value_update_queued_ = FALSE,
                   !.refreshed = b.value_update_range_]
    ELSE b

QueueRecompile(b) == [b EXCEPT !.recompile_queued_ = TRUE]

(***************************************************************************)
(* RenderBackend::GenerateData and CacheNext                               *)
(***************************************************************************)
\* A loop that never looks at IsAvailable(): the last worker gets every job.
PickWorkerAlwaysLast(procs) == Len(procs)

\* The worker "foreach (RenderWorker* worker, processors_)" stops at: the
\* first one that is available or is the last of the list; 0 if none.
PickWorker(procs) ==
  IF procs = << >> THEN 0
  ELSE LET ok == { i \in 1 .. Len(procs) : IsAvailable(procs[i]) \/ i = Len(procs) }
       IN  CHOOSE i \in ok : \A j \in ok : i <= j

\* <<backend, return value>>
GenerateData(b, range, cok) ==
  LET c == Compile(b, cok)
      b1 == c[1]
      w == PickWorker(b1.processors_)
  IN  IF ~c[2] THEN << b1, FALSE >>
      ELSE IF w = 0 THEN << b1, FALSE >>
      ELSE << [b1 EXCEPT !.processors_[w].inbox = Append(@, RenderJob(range)),
                         !.dispatched = range],
              TRUE >>

\* A CacheNext without "|| caching_": it dispatches while a job is in flight.
CacheNextNoInFlightCheck(b, ok, cok) ==
  LET i == Init(b, ok)
      b1 == i[1]
  IN  IF ~i[2] \/ b1.cache_queue_ = << >> \/ b1.viewer_node_ = NoNode
        THEN b1
        ELSE LET b2 == UpdateNodeInputs(b1)
                 cache_frame == Head(b2.cache_queue_)
                 b3 == [b2 EXCEPT !.cache_queue_ = Tail(@)]
                 g == GenerateData(b3, cache_frame, cok)
             IN  [g[1] EXCEPT !.caching_ = g[2]]

CacheNext(b, ok, cok) ==
  LET i == Init(b, ok)
      b1 == i[1]
  IN  IF ~i[2] \/ b1.cache_queue_ = << >> \/ b1.viewer_node_ = NoNode \/ b1.caching_
        THEN b1
        ELSE LET b2 == UpdateNodeInputs(b1)
                 cache_frame == Head(b2.cache_queue_)
                 b3 == [b2 EXCEPT !.cache_queue_ = Tail(@)]
                 g == GenerateData(b3, cache_frame, cok)
             IN  [g[1] EXCEPT !.caching_ = g[2]]

(***************************************************************************)
(* VideoRenderBackend::InvalidateCache                                     *)
(***************************************************************************)
\* "diff = r - last_time; if (diff < 0) diff = qAbs(diff) * 5"
WeightedDiff(r, last) ==
  IF r - last < 0 THEN Abs(r - last) * BehindPenalty ELSE r - last

\* QList::insert(i, x), with i counted from 1: x goes before the i-th entry.
InsertAt(q, i, x) == SubSeq(q, 1, i - 1) \o << x >> \o SubSeq(q, i, Len(q))

RECURSIVE ScanQueue(_, _, _, _, _)
\* The inner loop, "for (int i=0;i<cache_queue_.size();i++)", from entry i on,
\* and the append that follows it when nothing was added.
ScanQueue(q, i, r, diff, last) ==
  IF i > Len(q) THEN Append(q, r)
  ELSE IF q[i] - last > diff THEN InsertAt(q, i, r)
  ELSE IF q[i] = r THEN q
  ELSE ScanQueue(q, i + 1, r, diff, last)

\* One turn of the outer loop: time point r is put into queue q.
InsertPoint(q, r, last) == ScanQueue(q, 1, r, WeightedDiff(r, last), last)

\* A snap that does not round: the loop starts at the clamped start itself.
SnapToTimebaseNoFloor(start_adj) == start_adj

\* "Snap start_range to timebase": qFloor(start / time base) * time base, for
\* the clamped start (never negative).  The code computes it in double
\* precision; in the model's units the value is exact.
SnapToTimebase(start_adj) == (start_adj \div TimeBase) * TimeBase

RECURSIVE InvalidateLoop(_, _, _, _, _)
\* "for (rational r=true_start_range;r<=end_range_adj;r+=time_base)": the
\* pair <<queue, the set of points the loop body ran for>>.
InvalidateLoop(q, seen, r, end_adj, last) ==
  IF r <= end_adj
    THEN InvalidateLoop(InsertPoint(q, r, last), seen \cup {r}, r + TimeBase, end_adj, last)
    ELSE << q, seen >>

\* The points InvalidateCache(start_range, end_range) enumerates.
InvalidatePoints(b, start_range, end_range) ==
  InvalidateLoop(b.cache_queue_, {},
                 SnapToTimebase(Max(0, start_range)),
                 Min(SequenceLength(b), end_range),
                 b.last_time_requested_)[2]

\* An InvalidateCache without the test of params_.is_valid().
InvalidateCacheNoParamCheck(b, start_range, end_range, ok, cok) ==
  LET loop == InvalidateLoop(b.cache_queue_, {},
                             SnapToTimebase(Max(0, start_range)),
                             Min(SequenceLength(b), end_range),
                             b.last_time_requested_)
      b1 == [b EXCEPT !.cache_queue_ = loop[1],
                      !.frame_cache_ = Truncate(@, SequenceLength(b))]
  IN  CacheNext(QueueValueUpdate(b1, << start_range, end_range >>), ok, cok)

\* An InvalidateCache without "frame_cache_.Truncate(SequenceLength())".
InvalidateCacheNoTruncate(b, start_range, end_range, ok, cok) ==
  IF ~ParamsValid(b.params_) THEN b
  ELSE LET loop == InvalidateLoop(b.cache_queue_, {},
                                  SnapToTimebase(Max(0, start_range)),
                                  Min(SequenceLength(b), end_range),
                                  b.last_time_requested_)
           b1 == [b EXCEPT !.cache_queue_ = loop[1]]
       IN  CacheNext(QueueValueUpdate(b1, << start_range, end_range >>), ok, cok)

InvalidateCache(b, start_range, end_range, ok, cok) ==
  IF ~ParamsValid(b.params_) THEN b
  ELSE LET start_range_adj == Max(0, start_range)
           end_range_adj == Min(SequenceLength(b), end_range)
           true_start_range == SnapToTimebase(start_range_adj)
           loop == InvalidateLoop(b.cache_queue_, {}, true_start_range,
                                  end_range_adj, b.last_time_requested_)
           b1 == [b EXCEPT !.cache_queue_ = loop[1],
                           !.frame_cache_ = Truncate(@, SequenceLength(b))]
       IN  CacheNext(QueueValueUpdate(b1, << start_range, end_range >>), ok, cok)

(***************************************************************************)
(* VideoRenderBackend::GetCachedFrame.  can_open is whether               *)
(* OIIO::ImageInput::open succeeds on an existing file.                    *)
(***************************************************************************)
\* RenderBackend::viewer_node(): the copied viewer node.
viewer_node(b) == b.copied_viewer_node_

\* A GetCachedFrame that opens the file without testing QFileInfo::exists.
GetCachedFrameResultNoExistsCheck(b, time, can_open) ==
  IF viewer_node(b) = NoNode THEN << "null", "" >>
  ELSE IF b.cache_id_ = EmptyId THEN << "null", "No cache ID" >>
  ELSE IF ~ParamsValid(b.params_) THEN << "null", "Invalid parameters" >>
  ELSE IF TimeToHash(b.frame_cache_, time) # NoHash
    THEN IF can_open THEN << "frame", "" >> ELSE << "null", "OIIO Error" >>
    ELSE << "null", "" >>

\* What GetCachedFrame returns, "frame" (the load buffer) or "null", and the
\* warning it logs (qWarning), "" when it logs none.
GetCachedFrameResult(b, time, can_open) ==
  IF viewer_node(b) = NoNode THEN << "null", "" >>
  ELSE IF b.cache_id_ = EmptyId THEN << "null", "No cache ID" >>
  ELSE IF ~ParamsValid(b.params_) THEN << "null", "Invalid parameters" >>
  ELSE LET frame_hash == TimeToHash(b.frame_cache_, time)
       IN  IF frame_hash # NoHash
             THEN IF CachePathName(b.frame_cache_, frame_hash) \in b.disk
                    THEN IF can_open THEN << "frame", "" >>
                                     ELSE << "null", "OIIO Error" >>
                    ELSE << "null", "" >>
             ELSE << "null", "" >>

\* A GetCachedFrame that records the time only after the test of viewer_node().
GetCachedFrameLateRecord(b, time) ==
  IF viewer_node(b) = NoNode THEN b ELSE [b EXCEPT !.last_time_requested_ = time]

\* The state GetCachedFrame leaves.
GetCachedFrame(b, time) == [b EXCEPT !.last_time_requested_ = time]

(***************************************************************************)
(* RenderBackend::RegenerateCacheID, SetCacheName;                         *)
(* VideoRenderBackend::SetParameters, GenerateCacheIDInternal,             *)
(* CacheIDChangedEvent                                                     *)
(***************************************************************************)
\* The bytes GenerateCacheIDInternal adds to the hash.
GenerateCacheIDInternal(p) ==
  NumberToUtf8(p.width) \o NumberToUtf8(p.height)
    \o NumberToUtf8(p.format) \o NumberToUtf8(p.divider)

\* A CacheIDChangedEvent that does not pass the ID on (the base class's).
CacheIDChangedEventIgnored(b, id) == b

\* VideoRenderBackend::CacheIDChangedEvent
CacheIDChangedEvent(b, id) == [b EXCEPT !.frame_cache_ = SetCacheID(@, id)]

\* A RegenerateCacheID that returns early without clearing: the ID of the last
\* valid inputs stays.
RegenerateCacheIDKeepsStale(b) ==
  IF b.cache_name_ = NameEmpty \/ b.cache_time_ = 0 \/ ~ParamsValid(b.params_)
    THEN b
    ELSE LET id == GenerateCacheIDInternal(b.params_) \o b.cache_name_
                     \o NumberToUtf8(b.cache_time_)
         IN  CacheIDChangedEvent([b EXCEPT !.cache_id_ = id], id)

RegenerateCacheID(b) ==
  IF b.cache_name_ = NameEmpty \/ b.cache_time_ = 0 \/ ~ParamsValid(b.params_)
    THEN CacheIDChangedEvent([b EXCEPT !.cache_id_ = EmptyId], EmptyId)
    ELSE LET id == GenerateCacheIDInternal(b.params_) \o b.cache_name_
                     \o NumberToUtf8(b.cache_time_)
         IN  CacheIDChangedEvent([b EXCEPT !.cache_id_ = id], id)

SetCacheName(b, s, now) ==
  RegenerateCacheID([b EXCEPT !.cache_name_ = s, !.cache_time_ = now])

\* A SetParameters that leaves the workers with the parameters they had.
SetParametersSkipsWorkers(b, p) == RegenerateCacheID([b EXCEPT !.params_ = p])

SetParameters(b, p) ==
  RegenerateCacheID(
    [b EXCEPT !.params_ = p,
              !.processors_ = [i \in 1 .. Len(@) |-> [@[i] EXCEPT !.params = p]]])

(***************************************************************************)
(* RenderBackend::SetViewerNode; VideoRenderBackend::ConnectViewer         *)
(***************************************************************************)
ConnectViewer(b, node) ==
  SetParameters(b, MkParams(ViewerVideoParams(node)[1], ViewerVideoParams(node)[2],
                            PixFmtRGBA16F, ViewerDivider))

SetViewerNode(b, node) ==
  LET b1 == IF b.viewer_node_ # NoNode THEN Decompile(b) ELSE b
      b2 == [b1 EXCEPT !.viewer_node_ = node]
  IN  IF node # NoNode THEN ConnectViewer(b2, node) ELSE b2

(***************************************************************************)
(* The worker's side and the slots its signals are connected to            *)
(* (ConnectWorkerToThis): ThreadCompletedFrame and ThreadSkippedFrame.     *)
(***************************************************************************)
\* The worker's thread takes the next invocation from its event queue.
WorkerTake(b, i) ==
  [b EXCEPT !.processors_[i].inbox = Tail(@),
            !.processors_[i].working = TRUE,
            !.processors_[i].cur = Head(b.processors_[i].inbox).time]

\* The worker has rendered its time point to content hash h and emits
\* CompletedFrame(dep, hash); it may have put a decoder into the decoder cache.
WorkerComplete(b, i, h, dec) ==
  [b EXCEPT !.processors_[i].working = FALSE,
            !.processors_[i].cur = NoTime,
            !.decoder_cache_ = IF dec THEN 1 ELSE @,
            !.completions = Append(@, [signal |-> "CompletedFrame",
                                       time |-> b.processors_[i].cur,
                                       hash |-> h])]

\* The worker finds the hash being cached already and emits
\* HashAlreadyBeingCached().
WorkerSkip(b, i) ==
  [b EXCEPT !.processors_[i].working = FALSE,
            !.processors_[i].cur = NoTime,
            !.completions = Append(@, [signal |-> "HashAlreadyBeingCached",
                                       time |-> b.processors_[i].cur,
                                       hash |-> NoHash])]

(***************************************************************************)
(* The worker's job in steps (VideoRenderWorker): it hashes the job, gives *)
(* up when the hash is being cached by another worker, and otherwise       *)
(* evaluates the nodes of the snapshot, each under its processing lock     *)
(* (Node::LockProcessing, a QMutex), and completes.  WorkerComplete and    *)
(* WorkerSkip above are the whole job in one step.                         *)
(***************************************************************************)
\* Some worker is evaluating content hash h.
HashBeingCached(b, h) ==
  \E j \in 1 .. Len(b.processors_) : b.processors_[j].hash = h

\* A worker that evaluates whether the hash is being cached or not.
WorkerHashNoCheck(b, i, h) == [b EXCEPT !.processors_[i].hash = h]

\* Worker i has hashed its job to h: HashAlreadyBeingCached and back to idle
\* when another worker is on h, otherwise h is being cached by i from now on.
WorkerHash(b, i, h) ==
  IF HashBeingCached(b, h) THEN WorkerSkip(b, i)
  ELSE [b EXCEPT !.processors_[i].hash = h]

\* Some worker holds the processing lock of node n.
IsProcessingLocked(b, n) ==
  \E j \in 1 .. Len(b.processors_) : n \in Range(b.processors_[j].held)

\* A lock that is taken whoever holds it.
LockProcessingAcquiredAlways(b, n) == TRUE

\* Node::LockProcessing on node n returns: QMutex::lock, when nobody holds it.
LockProcessingAcquired(b, n) == ~IsProcessingLocked(b, n)

\* Worker i is in node n's evaluation, holding its lock.
WorkerLock(b, i, n) == [b EXCEPT !.processors_[i].held = Append(@, n)]

\* Worker i is through with the node it entered last: Node::UnlockProcessing.
WorkerUnlock(b, i) ==
  [b EXCEPT !.processors_[i].held = SubSeq(@, 1, Len(@) - 1)]

\* Worker i completes the evaluation of its hash.
WorkerFinish(b, i, dec) ==
  [WorkerComplete(b, i, b.processors_[i].hash, dec)
     EXCEPT !.processors_[i].hash = NoHash]

\* Worker i, evaluating, emits RequestSibling for time t.
WorkerRequestSibling(b, t) ==
  [b EXCEPT !.completions = Append(@, [signal |-> "RequestSibling",
                                       time |-> t, hash |-> NoHash])]

\* The first worker that is available; 0 if none is.
FirstAvailable(procs) ==
  LET ok == { i \in 1 .. Len(procs) : IsAvailable(procs[i]) }
  IN  IF ok = {} THEN 0 ELSE CHOOSE i \in ok : \A j \in ok : i <= j

\* Slot RenderBackend::ThreadRequestedSibling
ThreadRequestedSibling(b, m) ==
  LET b1 == [b EXCEPT !.completions = Tail(@)]
      w == FirstAvailable(b1.processors_)
  IN  IF w = 0 THEN b1
      ELSE [b1 EXCEPT !.processors_[w].inbox = Append(@, SiblingJob(m.time))]

\* Slot ThreadCompletedFrame: the frame is in the cache under its hash, the
\* job is over and the next one is dispatched.
ThreadCompletedFrame(b, m, ok, cok) ==
  LET b1 == [b EXCEPT !.completions = Tail(@),
                      !.caching_ = FALSE,
                      !.frame_cache_ = SetHash(@, m.time, m.hash),
                      !.disk = @ \cup { CachePathName(b.frame_cache_, m.hash) }]
  IN  CacheNext(b1, ok, cok)

\* Slot ThreadSkippedFrame.
ThreadSkippedFrame(b, ok, cok) ==
  CacheNext([b EXCEPT !.completions = Tail(@), !.caching_ = FALSE], ok, cok)

(***************************************************************************)
(* The initial state: a VideoRenderBackend just constructed (its           *)
(* constructor calls SetCacheName("Test")), in a project whose viewers     *)
(* exist already.                                                          *)
(***************************************************************************)
Constructed ==
  SetCacheName(
    [ started_ |-> FALSE, caching_ |-> FALSE, compiled_ |-> FALSE,
      recompile_queued_ |-> FALSE, value_update_queued_ |-> FALSE,
      value_update_range_ |-> << 0, 0 >>,
      viewer_node_ |-> NoNode, copied_viewer_node_ |-> NoNode,
      source_node_list_ |-> << >>, copied_graph_ |-> << >>,
      threads_ |-> 0, running_threads |-> 0, processors_ |-> << >>,
      decoder_cache_ |-> 0, cache_name_ |-> NameEmpty, cache_time_ |-> 0,
      cache_id_ |-> EmptyId, params_ |-> DefaultParams, cache_queue_ |-> << >>,
      last_time_requested_ |-> 0, cache_frame_load_buffer_ |-> FALSE,
      frame_cache_ |-> [id |-> EmptyId, map |-> EmptyTimeMap],
      completions |-> << >>, disk |-> {},
      viewer_length |-> [v \in Viewers |-> MaxTime], close_pc |-> 0,
      dispatched |-> NoTime, copied |-> 0, refreshed |-> NoRange ],
    NameTest, 1)

\* The record of an operation: its name, its time argument, what it returned,
\* the warning it logged, the points InvalidateCache's loop ran for, the time
\* point it handed to a worker, the number of nodes it copied (Node::copy) and
\* the times whose entry it removed from the frame cache, and the range whose
\* cached values it dropped from the snapshot (drop_cached_values_overlapping).
Called(op, arg, ret, warning, points, b) ==
  [op |-> op, arg |-> arg, ret |-> ret, warning |-> warning, points |-> points,
   dispatched |-> b.dispatched, copied |-> b.copied, refreshed |-> b.refreshed,
   dropped |-> { t \in Times : /\ TimeToHash(frame_cache_, t) # NoHash
                               /\ TimeToHash(b.frame_cache_, t) = NoHash }]

\* The state after construction.
Constructor ==
  /\ started_ = Constructed.started_
  /\ caching_ = Constructed.caching_
  /\ compiled_ = Constructed.compiled_
  /\ recompile_queued_ = Constructed.recompile_queued_
  /\ value_update_queued_ = Constructed.value_update_queued_
  /\ value_update_range_ = Constructed.value_update_range_
  /\ viewer_node_ = Constructed.viewer_node_
  /\ copied_viewer_node_ = Constructed.copied_viewer_node_
  /\ source_node_list_ = Constructed.source_node_list_
  /\ copied_graph_ = Constructed.copied_graph_
  /\ threads_ = Constructed.threads_
  /\ running_threads = Constructed.running_threads
  /\ processors_ = Constructed.processors_
  /\ decoder_cache_ = Constructed.decoder_cache_
  /\ cache_name_ = Constructed.cache_name_
  /\ cache_time_ = Constructed.cache_time_
  /\ cache_id_ = Constructed.cache_id_
  /\ params_ = Constructed.params_
  /\ cache_queue_ = Constructed.cache_queue_
  /\ last_time_requested_ = Constructed.last_time_requested_
  /\ cache_frame_load_buffer_ = Constructed.cache_frame_load_buffer_
  /\ frame_cache_ = Constructed.frame_cache_
  /\ completions = Constructed.completions
  /\ disk = Constructed.disk
  /\ viewer_length = Constructed.viewer_length
  /\ close_pc = Constructed.close_pc
  /\ call = Called("constructor", NoTime, "void", "", {}, Constructed)

(***************************************************************************)
(* The actions: one per public operation, slot or step of a worker.  An    *)
(* action is enabled only while the state it leads to is within the        *)
(* model's bounds.                                                         *)
(***************************************************************************)
BoolStr(x) == IF x THEN "true" ELSE "false"

\* The starts and ends InvalidateCache is called with: from before time 0 to
\* after the longest sequence, aligned or not.
InvalidateStarts == (0 - 1) .. MaxTime
InvalidateEnds == (0 - 1) .. (MaxTime + 1)

\* Operation op with time argument arg takes the backend to b, returns ret and
\* logs warning.
StepOf(op, arg, ret, warning, points, b) ==
  /\ WithinBounds(b)
  /\ Commit(b)
  /\ call' = Called(op, arg, ret, warning, points, b)

Step(op, ret, points, b) == StepOf(op, NoTime, ret, "", points, b)

\* RenderBackend::Init(), the subclass's InitInternal returning a value of Oks.
InitWith(Oks) ==
  \E ok \in Oks :
    LET r == Init(Backend, ok) IN Step("Init", BoolStr(r[2]), {}, r[1])

\* RenderBackend::Close()
DoClose == Step("Close", "void", {}, Close(Backend))

\* RenderBackend::Close() is entered and runs to its first wait (or returns).
DoCloseBegin ==
  /\ close_pc = 0
  /\ LET b == CloseBegin(Backend)
     IN  Step("Close.begin", IF b.close_pc = 0 THEN "void" ELSE "waiting", {}, b)

\* The wait Close() is in returns, and Close() runs to its next wait (or
\* returns).
DoCloseWait ==
  /\ close_pc # 0
  /\ CloseWaitReturns(Backend)
  /\ LET b == CloseWait(Backend)
     IN  Step("Close.wait", IF b.close_pc = 0 THEN "void" ELSE "waiting", {}, b)

\* RenderBackend::SetViewerNode(node), node in Nodes.
SetViewerNodeWith(Nodes) ==
  \E node \in Nodes :
    Step("SetViewerNode", "void", {}, SetViewerNode(Backend, node))

\* VideoRenderBackend::SetParameters(p), p in Params.
SetParametersWith(Params) ==
  \E p \in Params :
    StepOf("SetParameters", p, "void", "", {}, SetParameters(Backend, p))

\* RenderBackend::SetCacheName(s) at clock time now.
DoSetCacheName ==
  \E s \in NameChoices, now \in ClockChoices :
    Step("SetCacheName", "void", {}, SetCacheName(Backend, s, now))

\* Slot QueueRecompile (the viewer's VideoGraphChanged).
DoQueueRecompile == Step("QueueRecompile", "void", {}, QueueRecompile(Backend))

\* RenderBackend::Compile(), CompileInternal returning a value of Coks.  Compile
\* dereferences viewer_node_ when it copies, so it is called with a viewer
\* attached (as CacheNext does) or on a snapshot that stands.
CompileWith(Coks) ==
  \E cok \in Coks :
    /\ viewer_node_ # NoNode \/ (compiled_ /\ ~recompile_queued_)
    /\ LET r == Compile(Backend, cok) IN Step("Compile", BoolStr(r[2]), {}, r[1])

\* RenderBackend::CacheNext(), with what InitInternal and CompileInternal
\* return in it.
CacheNextWith(Oks, Coks) ==
  \E ok \in Oks, cok \in Coks :
    Step("CacheNext", "void", {}, CacheNext(Backend, ok, cok))

\* Slot InvalidateCache(start_range, end_range), the range in Ranges; Oks and
\* Coks are what InitInternal and CompileInternal may return in the dispatch.
InvalidateCacheWith(Ranges, Oks, Coks) ==
  \E range \in Ranges, ok \in Oks, cok \in Coks :
    Step("InvalidateCache", "void",
         IF ParamsValid(params_)
           THEN InvalidatePoints(Backend, range[1], range[2]) ELSE {},
         InvalidateCache(Backend, range[1], range[2], ok, cok))

\* VideoRenderBackend::GetCachedFrame(time), time in Ts.
GetCachedFrameWith(Ts, Opens) ==
  \E time \in Ts, can_open \in Opens :
    LET r == GetCachedFrameResult(Backend, time, can_open)
    IN  StepOf("GetCachedFrame", time, r[1], r[2], {}, GetCachedFrame(Backend, time))

\* A thread takes nothing more from its event queue once quit() was called on
\* it (the threads up to close_pc).
DoWorkerTake ==
  \E i \in 1 .. Len(processors_) :
    /\ i > close_pc
    /\ processors_[i].inbox # << >>
    /\ ~processors_[i].working
    /\ Step("WorkerTake", "void", {}, WorkerTake(Backend, i))

WorkerCompleteWith(Hs, Decs) ==
  \E i \in 1 .. Len(processors_), h \in Hs, dec \in Decs :
    /\ processors_[i].working
    /\ Step("WorkerComplete", "void", {}, WorkerComplete(Backend, i, h, dec))

DoWorkerSkip ==
  \E i \in 1 .. Len(processors_) :
    /\ processors_[i].working
    /\ Step("WorkerSkip", "void", {}, WorkerSkip(Backend, i))

\* Worker i, in a job it has not hashed yet, hashes it to a hash of Hs.
WorkerHashWith(Hs) ==
  \E i \in 1 .. Len(processors_), h \in Hs :
    /\ processors_[i].working
    /\ processors_[i].hash = NoHash
    /\ StepOf("WorkerHash", h, "void", "", {}, WorkerHash(Backend, i, h))

\* A worker evaluating its hash enters a node of the snapshot that it is not in.
DoWorkerLock ==
  \E i \in 1 .. Len(processors_), n \in Range(copied_graph_) :
    /\ processors_[i].hash # NoHash
    /\ n \notin Range(processors_[i].held)
    /\ LockProcessingAcquired(Backend, n)
    /\ StepOf("WorkerLock", n, "void", "", {}, WorkerLock(Backend, i, n))

DoWorkerUnlock ==
  \E i \in 1 .. Len(processors_) :
    /\ processors_[i].held # << >>
    /\ Step("WorkerUnlock", "void", {}, WorkerUnlock(Backend, i))

\* A worker that is in no node any more completes.
WorkerFinishWith(Decs) ==
  \E i \in 1 .. Len(processors_), dec \in Decs :
    /\ processors_[i].hash # NoHash
    /\ processors_[i].held = << >>
    /\ Step("WorkerFinish", "void", {}, WorkerFinish(Backend, i, dec))

WorkerRequestSiblingWith(Ts) ==
  \E i \in 1 .. Len(processors_), t \in Ts :
    /\ processors_[i].hash # NoHash
    /\ StepOf("WorkerRequestSibling", t, "void", "", {}, WorkerRequestSibling(Backend, t))

DoThreadRequestedSibling ==
  /\ completions # << >>
  /\ Head(completions).signal = "RequestSibling"
  /\ Step("ThreadRequestedSibling", "void", {},
          ThreadRequestedSibling(Backend, Head(completions)))

ThreadCompletedFrameWith(Oks, Coks) ==
  \E ok \in Oks, cok \in Coks :
    /\ completions # << >>
    /\ Head(completions).signal = "CompletedFrame"
    /\ Step("ThreadCompletedFrame", "void", {},
            ThreadCompletedFrame(Backend, Head(completions), ok, cok))

ThreadSkippedFrameWith(Oks, Coks) ==
  \E ok \in Oks, cok \in Coks :
    /\ completions # << >>
    /\ Head(completions).signal = "HashAlreadyBeingCached"
    /\ Step("ThreadSkippedFrame", "void", {}, ThreadSkippedFrame(Backend, ok, cok))

\* The length of a viewer's sequence changes (an edit of the timeline).
SetLengthWith(Vs, Lens) ==
  \E v \in Vs, len \in Lens :
    /\ len # viewer_length[v]
    /\ Step("SetLength", "void", {}, [Backend EXCEPT !.viewer_length[v] = len])

\* A cache file disappears from the disk.
DoDeleteFile ==
  \E f \in disk : Step("DeleteFile", "void", {}, [Backend EXCEPT !.disk = @ \ {f}])

(***************************************************************************)
(* The whole system: every operation with every input.                     *)
(***************************************************************************)
AllRanges ==
  { range \in InvalidateStarts \X InvalidateEnds : range[1] <= range[2] }

DoInit == InitWith(BOOLEAN)
DoSetViewerNode == SetViewerNodeWith(Viewers \cup {NoNode})
DoSetParameters == SetParametersWith(ParamChoices)
DoInvalidateCache == InvalidateCacheWith(AllRanges, BOOLEAN, BOOLEAN)
DoGetCachedFrame == GetCachedFrameWith(Times, BOOLEAN)
DoWorkerComplete == WorkerCompleteWith(Hashes, BOOLEAN)
DoThreadCompletedFrame == ThreadCompletedFrameWith(BOOLEAN, BOOLEAN)
DoThreadSkippedFrame == ThreadSkippedFrameWith(BOOLEAN, BOOLEAN)
DoSetLength == SetLengthWith(Viewers, Times)
DoCompile == CompileWith(BOOLEAN)
DoWorkerHash == WorkerHashWith(Hashes)
DoWorkerFinish == WorkerFinishWith(BOOLEAN)
DoWorkerRequestSibling == WorkerRequestSiblingWith(Times)
DoCacheNext == CacheNextWith(BOOLEAN, BOOLEAN)

Next ==
  \/ DoInit
  \/ DoClose
  \/ DoCloseBegin
  \/ DoCloseWait
  \/ DoCompile
  \/ DoCacheNext
  \/ DoSetViewerNode
  \/ DoSetParameters
  \/ DoSetCacheName
  \/ DoQueueRecompile
  \/ DoInvalidateCache
  \/ DoGetCachedFrame
  \/ DoWorkerTake
  \/ DoWorkerComplete
  \/ DoWorkerSkip
  \/ DoWorkerHash
  \/ DoWorkerLock
  \/ DoWorkerUnlock
  \/ DoWorkerFinish
  \/ DoWorkerRequestSibling
  \/ DoThreadRequestedSibling
  \/ DoThreadCompletedFrame
  \/ DoThreadSkippedFrame
  \/ DoSetLength
  \/ DoDeleteFile

Spec == Constructor /\ [][Next]_vars

(***************************************************************************)
(* SpecOrder: the queue and its order.  One viewer is attached, the        *)
(* playhead moves (GetCachedFrame), ranges are invalidated and the workers *)
(* render what is dispatched; InitInternal and CompileInternal succeed.    *)
(***************************************************************************)
OrderRanges == { << 0, MaxTime >>, << 0, 0 >>, << TimeBase, MaxTime >> }

OrderAttach == SetViewerNodeWith({1})
OrderGetCachedFrame == GetCachedFrameWith(Times, {TRUE})
OrderInvalidateCache == InvalidateCacheWith(OrderRanges, {TRUE}, {TRUE})
OrderWorkerComplete == WorkerCompleteWith({1}, {FALSE})
OrderThreadCompletedFrame == ThreadCompletedFrameWith({TRUE}, {TRUE})

NextOrder ==
  \/ OrderAttach
  \/ OrderGetCachedFrame
  \/ OrderInvalidateCache
  \/ DoWorkerTake
  \/ OrderWorkerComplete
  \/ OrderThreadCompletedFrame

SpecOrder == Constructor /\ [][NextOrder]_vars

(***************************************************************************)
(* SpecInvalidate: what InvalidateCache enumerates and when it acts.  The  *)
(* viewer is attached and detached, the parameters are replaced (by valid  *)
(* and by invalid ones), the sequence changes its length, and each range   *)
(* of a set of ranges is invalidated.                                      *)
(***************************************************************************)
InvalidateAttach == SetViewerNodeWith({1, NoNode})
InvalidateSetParameters ==
  SetParametersWith({ DefaultParams, MkParams(12, 3, PixFmtRGBA16F, ViewerDivider) })
\* Starts before 0, at 0, unaligned and aligned; ends aligned, unaligned and
\* after the longest sequence.
InvalidateRanges ==
  { range \in { 0 - 1, 0, 1, TimeBase } \X { 0, TimeBase + 1, MaxTime + 1 } :
      range[1] <= range[2] }
InvalidateInvalidateCache == InvalidateCacheWith(InvalidateRanges, {TRUE}, {TRUE})
InvalidateSetLength == SetLengthWith({1}, { 0, TimeBase + 1, MaxTime })

NextInvalidate ==
  \/ InvalidateAttach
  \/ InvalidateSetParameters
  \/ InvalidateInvalidateCache
  \/ InvalidateSetLength

SpecInvalidate == Constructor /\ [][NextInvalidate]_vars

(***************************************************************************)
(* SpecLookup: GetCachedFrame against a cache that fills and decays.  The  *)
(* viewer is attached (and attached again), points are invalidated,        *)
(* rendered and stored, files disappear from the disk, files fail to       *)
(* decode, and the parameters are replaced by invalid and by other ones.   *)
(***************************************************************************)
LookupTimes == { 0, TimeBase }
LookupAttach == SetViewerNodeWith({1})
LookupSetParameters ==
  SetParametersWith({ DefaultParams, MkParams(12, 3, PixFmtRGBA16F, ViewerDivider) })
LookupInvalidateCache ==
  InvalidateCacheWith({ << 0, 0 >>, << 0, TimeBase >> }, {TRUE}, {TRUE})
LookupGetCachedFrame == GetCachedFrameWith(LookupTimes, BOOLEAN)
LookupWorkerComplete == WorkerCompleteWith({1}, {FALSE})
LookupThreadCompletedFrame == ThreadCompletedFrameWith({TRUE}, {TRUE})

NextLookup ==
  \/ LookupAttach
  \/ LookupSetParameters
  \/ LookupInvalidateCache
  \/ LookupGetCachedFrame
  \/ DoWorkerTake
  \/ LookupWorkerComplete
  \/ LookupThreadCompletedFrame
  \/ DoDeleteFile

SpecLookup == Constructor /\ [][NextLookup]_vars

(***************************************************************************)
(* SpecLifecycle: Init and Close.  The backend is initialized (its         *)
(* InitInternal succeeding or failing) and closed at any moment, while a   *)
(* viewer is attached, points are invalidated and the workers render and   *)
(* fill the decoder cache.                                                 *)
(***************************************************************************)
LifecycleAttach == SetViewerNodeWith({1})
LifecycleInvalidateCache ==
  InvalidateCacheWith({ << 0, 0 >>, << 0, TimeBase >> }, BOOLEAN, {TRUE})
LifecycleWorkerComplete == WorkerCompleteWith({1}, BOOLEAN)
LifecycleThreadCompletedFrame == ThreadCompletedFrameWith(BOOLEAN, {TRUE})

NextLifecycle ==
  \/ DoInit
  \/ DoClose
  \/ LifecycleAttach
  \/ LifecycleInvalidateCache
  \/ DoWorkerTake
  \/ LifecycleWorkerComplete
  \/ LifecycleThreadCompletedFrame

SpecLifecycle == Constructor /\ [][NextLifecycle]_vars

(***************************************************************************)
(* SpecShutdown: Close() while workers render.  The coordinator thread     *)
(* does nothing else while it is inside Close(); the worker threads go on. *)
(* The coordinator is never held up by itself (weak fairness of the step   *)
(* that follows a returned wait); nothing obliges a worker to finish the   *)
(* job it is in.                                                           *)
(***************************************************************************)

\* What the coordinator thread does when it is not inside Close().
ShutdownCoordinator ==
  /\ close_pc = 0
  /\ \/ InitWith({TRUE})
     \/ SetViewerNodeWith({1})
     \/ InvalidateCacheWith({ << 0, 0 >>, << 0, TimeBase >> }, {TRUE}, {TRUE})
     \/ ThreadCompletedFrameWith({TRUE}, {TRUE})
     \/ DoCloseBegin

NextShutdown ==
  \/ ShutdownCoordinator
  \/ DoCloseWait
  \/ DoWorkerTake
  \/ WorkerCompleteWith({1}, {FALSE})

SpecShutdown == Constructor /\ [][NextShutdown]_vars /\ WF_vars(DoCloseWait)

(***************************************************************************)
(* SpecDispatch: Compile and CacheNext.  The backend is initialized and    *)
(* closed, a viewer attached and detached, a recompile queued, points      *)
(* invalidated, rendered and completed, and Compile and CacheNext are      *)
(* called in every state; InitInternal and CompileInternal fail or succeed.*)
(***************************************************************************)

NextDispatch ==
  \/ DoInit
  \/ DoClose
  \/ SetViewerNodeWith({1, NoNode})
  \/ DoQueueRecompile
  \/ InvalidateCacheWith({ << 0, 0 >>, << 0, TimeBase >> }, {TRUE}, BOOLEAN)
  \/ DoCompile
  \/ DoCacheNext
  \/ DoWorkerTake
  \/ WorkerCompleteWith({1}, {FALSE})
  \/ ThreadCompletedFrameWith({TRUE}, BOOLEAN)

SpecDispatch == Constructor /\ [][NextDispatch]_vars

(***************************************************************************)
(* SpecCacheId: the cache ID and the namespace of the frame cache.  The    *)
(* viewers are attached in turn, the parameters and the cache name         *)
(* replaced, and meanwhile a time point is invalidated, rendered, stored   *)
(* and looked up.                                                          *)
(***************************************************************************)

NextCacheId ==
  \/ SetViewerNodeWith(Viewers)
  \/ DoSetParameters
  \/ DoSetCacheName
  \/ InvalidateCacheWith({ << 0, 0 >> }, {TRUE}, {TRUE})
  \/ GetCachedFrameWith({0}, {TRUE})
  \/ DoWorkerTake
  \/ WorkerCompleteWith({1}, {FALSE})
  \/ ThreadCompletedFrameWith({TRUE}, {TRUE})

SpecCacheId == Constructor /\ [][NextCacheId]_vars

(***************************************************************************)
(* SpecTruncate: the frame cache of a sequence that shrinks and grows.     *)
(* Points are invalidated, rendered and stored while the length of the     *)
(* viewer's sequence changes.                                              *)
(***************************************************************************)

NextTruncate ==
  \/ SetViewerNodeWith({1})
  \/ InvalidateCacheWith({ << 0, 0 >>, << 0, MaxTime >>, << TimeBase, MaxTime >> }, {TRUE}, {TRUE})
  \/ DoWorkerTake
  \/ WorkerCompleteWith({1}, {FALSE})
  \/ ThreadCompletedFrameWith({TRUE}, {TRUE})
  \/ SetLengthWith({1}, { 0, TimeBase, MaxTime })

SpecTruncate == Constructor /\ [][NextTruncate]_vars

(***************************************************************************)
(* SpecWorkers: the workers at work, step by step.  A viewer is attached,  *)
(* a point is invalidated and dispatched, a worker in an evaluation asks   *)
(* for siblings, which go to the idle workers, and every worker hashes its *)
(* job and completes or skips.  SpecLocks: the same, and a worker in an    *)
(* evaluation locks and unlocks nodes of the snapshot.                     *)
(***************************************************************************)

NextWorkers ==
  \/ SetViewerNodeWith({1})
  \/ InvalidateCacheWith({ << 0, 0 >> }, {TRUE}, {TRUE})
  \/ DoWorkerTake
  \/ DoWorkerHash
  \/ WorkerFinishWith({FALSE})
  \/ WorkerRequestSiblingWith({0})
  \/ DoThreadRequestedSibling
  \/ ThreadCompletedFrameWith({TRUE}, {TRUE})
  \/ ThreadSkippedFrameWith({TRUE}, {TRUE})

SpecWorkers == Constructor /\ [][NextWorkers]_vars

\* In SpecLocks the coordinator dispatches and hands out siblings; the
\* completions wait in its event queue.
NextLocks ==
  \/ SetViewerNodeWith({1})
  \/ InvalidateCacheWith({ << 0, 0 >> }, {TRUE}, {TRUE})
  \/ DoWorkerTake
  \/ DoWorkerHash
  \/ DoWorkerLock
  \/ DoWorkerUnlock
  \/ WorkerFinishWith({FALSE})
  \/ WorkerRequestSiblingWith({0})
  \/ DoThreadRequestedSibling

SpecLocks == Constructor /\ [][NextLocks]_vars

(***************************************************************************)
(* SpecProgress: does the queue drain?  A viewer is attached, the graph    *)
(* changes (a recompile is queued), points are invalidated, and            *)
(* CompileInternal fails or succeeds.  A worker thread's event loop takes  *)
(* every invocation posted to it, a worker finishes every job, and the     *)
(* coordinator's event loop delivers every signal posted to it: weak       *)
(* fairness of these steps.  Nothing obliges the environment to act.       *)
(***************************************************************************)

\* What comes from outside the backend and its workers.
ProgressEnvironment ==
  \/ SetViewerNodeWith({1})
  \/ DoQueueRecompile
  \/ InvalidateCacheWith({ << 0, TimeBase >> }, {TRUE}, BOOLEAN)

\* A worker ends its job, by a frame or by a skip.
ProgressWorkerEnds == WorkerCompleteWith({1}, {FALSE}) \/ DoWorkerSkip

\* The coordinator's event loop delivers the signal at the head of its queue.
ProgressDeliver ==
  \/ ThreadCompletedFrameWith({TRUE}, BOOLEAN)
  \/ ThreadSkippedFrameWith({TRUE}, BOOLEAN)

NextProgress ==
  \/ ProgressEnvironment
  \/ DoWorkerTake
  \/ ProgressWorkerEnds
  \/ ProgressDeliver

SpecProgress ==
  /\ Constructor
  /\ [][NextProgress]_vars
  /\ WF_vars(DoWorkerTake)
  /\ WF_vars(ProgressWorkerEnds)
  /\ WF_vars(ProgressDeliver)

(***************************************************************************)
(* The claims.                                                             *)
(***************************************************************************)
\* The weighted distance of time point t to the last requested time: t - last,
\* and five times the magnitude when t is behind it.
WeightedDistance(t) ==
  IF t < last_time_requested_
    THEN BehindPenalty * (last_time_requested_ - t)
    ELSE t - last_time_requested_

\* Queue q is in ascending order of weighted distance.
AscendingByWeightedDistance(q) ==
  \A i, j \in 1 .. Len(q) :
    i < j => WeightedDistance(q[i]) <= WeightedDistance(q[j])

\* C1: of two queued time points, the one with the smaller weighted distance
\* to the last requested time is dequeued no later than the other: the queue,
\* which CacheNext takes from the head, never holds a point before one of
\* smaller weighted distance.
C1_QueueOrderedByDistance == AscendingByWeightedDistance(cache_queue_)

\* C2: from an empty queue, with the last requested time p aligned and strictly
\* inside (0, L), one InvalidateCache(0, L) hands p to a worker first and
\* leaves the rest of the queue in ascending weighted distance from p.
C2_PlayheadDispatchedFirst ==
  [][ ( /\ cache_queue_ = << >>
        /\ viewer_node_ # NoNode
        /\ ParamsValid(params_)
        /\ last_time_requested_ % TimeBase = 0
        /\ 0 < last_time_requested_
        /\ last_time_requested_ < SequenceLength(Backend)
        /\ call'.op = "InvalidateCache"
        /\ value_update_range_' = << 0, SequenceLength(Backend) >>
        /\ call'.dispatched # NoTime )
      => ( /\ call'.dispatched = last_time_requested_
           /\ AscendingByWeightedDistance(cache_queue_') ) ]_vars

\* C3: the cache queue never holds two entries for the same time point.
C3_NoDuplicateQueueEntries ==
  \A i, j \in 1 .. Len(cache_queue_) :
    i # j => cache_queue_[i] # cache_queue_[j]

\* The variables of the backend: everything but the record of the last call.
backend_vars ==
  << started_, caching_, compiled_, recompile_queued_, value_update_queued_,
     value_update_range_, viewer_node_, copied_viewer_node_, source_node_list_,
     copied_graph_, threads_, running_threads, processors_, decoder_cache_,
     cache_name_, cache_time_, cache_id_, params_, cache_queue_,
     last_time_requested_, cache_frame_load_buffer_, frame_cache_, completions,
     disk, viewer_length, close_pc >>

\* The aligned time points from lo to hi.
AlignedPoints(lo, hi) == { t \in 0 .. (MaxTime + 1) : t % TimeBase = 0 /\ lo <= t /\ t <= hi }

\* The last call was InvalidateCache(value_update_range_) with valid parameters.
InvalidatedWithValidParams == call.op = "InvalidateCache" /\ ParamsValid(params_)

\* C4, as amended: with valid parameters, InvalidateCache(start, end) enumerates
\* exactly the aligned points t with S <= t <= min(sequence length, end), where
\* S is max(0, start) rounded down to a multiple of the time base.
C4_EnumeratesFromSnappedStart ==
  InvalidatedWithValidParams =>
    LET start_adj == Max(0, value_update_range_[1])
    IN  call.points = AlignedPoints(start_adj - (start_adj % TimeBase),
                                    Min(SequenceLength(Backend), value_update_range_[2]))

\* C4, as claimed: the points enumerated are exactly the aligned points t with
\* max(0, start) <= t <= min(sequence length, end).
C4_EnumeratesWithinClampedRange ==
  InvalidatedWithValidParams =>
    call.points = AlignedPoints(Max(0, value_update_range_[1]),
                                Min(SequenceLength(Backend), value_update_range_[2]))

\* C4's case: an unaligned start inside the sequence, and the loop ran for the
\* aligned point below it.
C4_Witness ==
  /\ InvalidatedWithValidParams
  /\ value_update_range_[1] > 0
  /\ value_update_range_[1] % TimeBase # 0
  /\ \E t \in call.points : t < value_update_range_[1]
  /\ \E t \in call.points : t > value_update_range_[1]

\* C5, as amended: InvalidateCache on a backend without valid render parameters
\* changes no backend state, initialized or not.
C5_NoOpWithoutValidParams ==
  [][ (call'.op = "InvalidateCache" /\ ~ParamsValid(params_))
      => UNCHANGED backend_vars ]_vars

\* C5, as claimed: InvalidateCache on a backend that is uninitialized or has no
\* valid parameters leaves the queue, the pending value refresh, the threads and
\* workers, the in-flight flag and the snapshot as they were.
C5_NoOpWhenUninitialized ==
  [][ (call'.op = "InvalidateCache" /\ (~started_ \/ ~ParamsValid(params_)))
      => UNCHANGED << cache_queue_, value_update_queued_, value_update_range_,
                      threads_, running_threads, processors_, caching_, compiled_,
                      copied_viewer_node_, source_node_list_, copied_graph_ >> ]_vars

\* C5's case: InvalidateCache was called on a backend whose parameters are
\* invalid while its queue holds points and a viewer is attached.
C5_Witness ==
  /\ call.op = "InvalidateCache"
  /\ ~ParamsValid(params_)
  /\ cache_queue_ # << >>
  /\ viewer_node_ # NoNode

\* The hash the frame cache holds for the last requested time.
RequestedHash == TimeToHash(frame_cache_, last_time_requested_)

\* The cache file of the last requested time exists under the current cache ID.
RequestedFileOnDisk ==
  RequestedHash # NoHash /\ << cache_id_, RequestedHash >> \in disk

\* C6: GetCachedFrame(t) returns the cached frame whenever an evaluation root is
\* attached, the cache ID is not empty, the parameters are valid, t has a hash
\* and the hash's file is on disk under the current cache ID (and decodes), in
\* every state; otherwise it returns null.
C6_FrameWheneverCachedOnDisk ==
  call.op = "GetCachedFrame" =>
    LET cached == /\ viewer_node_ # NoNode
                  /\ cache_id_ # EmptyId
                  /\ ParamsValid(params_)
                  /\ RequestedFileOnDisk
    IN  /\ (cached /\ call.warning # "OIIO Error") => call.ret = "frame"
        /\ call.ret = "frame" => cached

\* C7: GetCachedFrame(t) records t as the last requested time on every path and
\* changes nothing else (queue, in-flight flag, snapshot, time-to-hash table and
\* the rest of the backend); for a time without cache entry it returns null, and
\* it can be called in every state (it waits for nothing).
C7_RecordsTimeAndNothingElse ==
  /\ [](\A t \in Times : ENABLED GetCachedFrameWith({t}, {TRUE}))
  /\ [][ call'.op = "GetCachedFrame"
         => /\ last_time_requested_' = call'.arg
            /\ UNCHANGED << started_, caching_, compiled_, recompile_queued_,
                            value_update_queued_, value_update_range_,
                            viewer_node_, copied_viewer_node_, source_node_list_,
                            copied_graph_, threads_, running_threads, processors_,
                            decoder_cache_, cache_name_, cache_time_, cache_id_,
                            params_, cache_queue_, cache_frame_load_buffer_,
                            frame_cache_, completions, disk, viewer_length >>
            /\ (TimeToHash(frame_cache_, call'.arg) = NoHash => call'.ret = "null") ]_vars

\* C7's case: GetCachedFrame returned null for a time without cache entry, on an
\* early-return path (nothing compiled) with work queued and a job in flight,
\* and the time differs from the one requested before.
C7_Witness ==
  /\ call.op = "GetCachedFrame"
  /\ call.ret = "null"
  /\ RequestedHash = NoHash
  /\ last_time_requested_ # 0
  /\ cache_queue_ # << >>
  /\ caching_

\* The last requested time is queued or with a worker.
RequestedIsPending ==
  \/ last_time_requested_ \in Range(cache_queue_)
  \/ \E i \in 1 .. Len(processors_) :
       \/ processors_[i].cur = last_time_requested_
       \/ \E k \in 1 .. Len(processors_[i].inbox) :
            processors_[i].inbox[k].time = last_time_requested_

\* GetCachedFrame's stored frame is unusable in the state before the call: a
\* snapshot exists, ID and parameters are valid and time t has a hash, but the
\* file is missing or (warning) fails to decode.
StoredFrameUnusable(t, warning) ==
  /\ copied_viewer_node_ # NoNode
  /\ cache_id_ # EmptyId
  /\ ParamsValid(params_)
  /\ TimeToHash(frame_cache_, t) # NoHash
  /\ \/ CachePathName(frame_cache_, TimeToHash(frame_cache_, t)) \notin disk
     \/ warning = "OIIO Error"

C9_FailedInitStopsThreads ==
  /\ (call.op = "Init" /\ call.ret = "false")
       => (~started_ /\ threads_ = 0 /\ running_threads = 0)
  /\ running_threads <= IdealThreadCount

C11_CloseTerminates == (close_pc # 0) ~> (close_pc = 0)

\* The compiled snapshot.
snapshot_vars ==
  << compiled_, copied_viewer_node_, source_node_list_, copied_graph_ >>

\* C12: while a snapshot is compiled and no recompile is queued, a call of
\* Compile() returns true and changes nothing, and no operation but
\* SetViewerNode (which decompiles) copies a node or changes the snapshot.
C12_CompiledStaysCompiled ==
  [][ (compiled_ /\ ~recompile_queued_ /\ call'.op # "SetViewerNode")
      => /\ call'.copied = 0
         /\ UNCHANGED snapshot_vars
         /\ (call'.op = "Compile"
               => (call'.ret = "true" /\ UNCHANGED backend_vars)) ]_vars

\* C12's case: Compile() was called on a compiled snapshot, copied nothing and
\* returned true.
C12_Witness ==
  /\ call.op = "Compile"
  /\ call.ret = "true"
  /\ call.copied = 0
  /\ compiled_
  /\ ~recompile_queued_

\* The cache ID a backend just constructed derives when it is given name s at
\* clock time now and then parameters p.
FreshCacheId(p, s, now) == SetParameters(SetCacheName(Constructed, s, now), p).cache_id_

\* C13: the cache ID is a function of width, height, pixel format, divider,
\* cache name and creation timestamp alone: whatever the backend went through,
\* its ID is the one a fresh backend derives from the same six values; and
\* SetParameters with the parameters the backend has leaves the ID as it is.
C13_CacheIdDeterministic ==
  /\ [](cache_id_ = FreshCacheId(params_, cache_name_, cache_time_))
  /\ [][ (call'.op = "SetParameters" /\ params_' = params_)
         => cache_id_' = cache_id_ ]_vars

\* C13's case: SetParameters was called with valid parameters on a backend whose
\* frames are stored under a non-empty ID, after the ID had been another one.
C13_Witness ==
  /\ call.op = "SetParameters"
  /\ ParamsValid(params_)
  /\ cache_id_ # EmptyId
  /\ \E f \in disk : f[1] # cache_id_

\* C14: for a fixed cache name and timestamp, a change from one valid
\* parameter set to a different valid one changes the cache ID.
C14_DifferentParamsDifferentId ==
  [][ ( /\ ParamsValid(params_) /\ ParamsValid(params_')
        /\ params_' # params_
        /\ cache_name_' = cache_name_ /\ cache_name_ # NameEmpty
        /\ cache_time_' = cache_time_ /\ cache_time_ # 0 )
      => cache_id_' # cache_id_ ]_vars

\* C15: when InvalidateCache with valid parameters returns, the frame cache
\* has no entry for a time after the sequence length, and the entry of every
\* time up to the sequence length is the one it was.
C15_TruncatedToSequenceLength ==
  [][ (call'.op = "InvalidateCache" /\ ParamsValid(params_))
      => \A t \in Times :
           TimeToHash(frame_cache_', t) =
             IF t > SequenceLength(Backend) THEN NoHash
                                            ELSE TimeToHash(frame_cache_, t) ]_vars

\* C15's case: InvalidateCache removed the entry of a time after the sequence
\* length and kept the entry of a time within it.
C15_Witness ==
  /\ call.op = "InvalidateCache"
  /\ call.dropped # {}
  /\ \E t \in Times : t <= SequenceLength(Backend) /\ TimeToHash(frame_cache_, t) # NoHash

\* C16: GetCachedFrame never returns a file stored under another cache ID than
\* the current one: when it returns a frame, the hash of the requested time has
\* its file under the current ID; an entry whose file exists under an old ID
\* only is a miss.
C16_NoFrameFromOldNamespace ==
  (call.op = "GetCachedFrame" /\ call.ret = "frame")
    => (RequestedHash # NoHash /\ << cache_id_, RequestedHash >> \in disk)

\* C16's case: the requested time has an entry and its file was written under
\* an ID that is no longer the current one, a snapshot is compiled, ID and
\* parameters are valid, and GetCachedFrame returned null.
C16_Witness ==
  /\ call.op = "GetCachedFrame"
  /\ call.ret = "null"
  /\ copied_viewer_node_ # NoNode
  /\ cache_id_ # EmptyId
  /\ ParamsValid(params_)
  /\ RequestedHash # NoHash
  /\ \E f \in disk : f[2] = RequestedHash /\ f[1] # cache_id_ /\ f[1] # EmptyId
  /\ << cache_id_, RequestedHash >> \notin disk

\* The workers that are evaluating content hash h.
Evaluating(h) == { i \in 1 .. Len(processors_) : processors_[i].hash = h }

\* C17: at most one worker evaluates a given content hash at any time; a worker
\* whose job hashes to a hash that another worker is evaluating emits
\* HashAlreadyBeingCached, starts no evaluation and is idle again.
C17_OneEvaluationPerHash ==
  /\ [](\A h \in Hashes : Cardinality(Evaluating(h)) <= 1)
  /\ [][ (call'.op = "WorkerHash" /\ Evaluating(call'.arg) # {})
         => /\ \A h \in Hashes : Evaluating(h)' = Evaluating(h)
            /\ completions' # << >>
            /\ completions'[Len(completions')].signal = "HashAlreadyBeingCached"
            /\ \E i \in 1 .. Len(processors_) :
                 /\ ~IsAvailable(processors_[i]) /\ IsAvailable(processors_'[i])
                 /\ \A j \in 1 .. Len(processors_) :
                      j # i => processors_'[j] = processors_[j] ]_vars

\* C17's case: a second worker has hashed its job to the hash another worker is
\* evaluating, and has given up.
C17_Witness ==
  /\ call.op = "WorkerHash"
  /\ Evaluating(call.arg) # {}
  /\ completions # << >>
  /\ completions[Len(completions)].signal = "HashAlreadyBeingCached"
  /\ \E i \in 1 .. Len(processors_) : IsAvailable(processors_[i])

\* The workers that are in the evaluation of node n of the snapshot.
InNode(n) == { i \in 1 .. Len(processors_) : n \in Range(processors_[i].held) }

\* C18: no two workers are in the evaluation of the same node of the snapshot
\* at the same time: a worker is in a node only while it holds the node's
\* processing lock, and so a worker enters only a node no worker is in.
C18_OneWorkerPerNode ==
  /\ [](\A n \in Range(copied_graph_) : Cardinality(InNode(n)) <= 1)
  /\ [][ call'.op = "WorkerLock" => InNode(call'.arg) = {} ]_vars

\* C18's case: two workers are evaluating at the same time, each in a node of
\* the snapshot, and the second has just entered its node.
C18_Witness ==
  \E i, j \in 1 .. Len(processors_) :
    /\ i # j
    /\ processors_[i].held # << >>
    /\ processors_[j].held # << >>
    /\ call.op = "WorkerLock"

\* C20, as amended: CacheNext() begins with Init(), which initializes a backend
\* that is not initialized; when that Init() fails, the queue is empty, no
\* viewer is attached or a dispatch is in flight, CacheNext() changes nothing
\* but what that Init() changes (nothing at all on an initialized backend).
C20_NoOpBeyondInit ==
  [][ ( /\ call'.op = "CacheNext"
        /\ (~started_' \/ cache_queue_ = << >> \/ viewer_node_ = NoNode \/ caching_) )
      => /\ \E ok \in BOOLEAN : Commit(Init(Backend, ok)[1])
         /\ started_ => UNCHANGED backend_vars ]_vars

\* C20, as claimed: CacheNext() changes no state when the backend is not
\* initialized, the queue is empty, no viewer is attached or a dispatch is in
\* flight.
C20_NoOpWhenPreconditionFails ==
  [][ ( /\ call'.op = "CacheNext"
        /\ (~started_ \/ cache_queue_ = << >> \/ viewer_node_ = NoNode \/ caching_) )
      => UNCHANGED backend_vars ]_vars

\* C20's case: CacheNext() was called, and dispatched nothing, on an initialized
\* backend with a viewer attached and points queued while a job is in flight.
C20_Witness ==
  /\ call.op = "CacheNext"
  /\ started_
  /\ caching_
  /\ cache_queue_ # << >>
  /\ viewer_node_ # NoNode

\* A worker's signal of completion or skip waits for the coordinator.
WorkerHasSignalled ==
  /\ completions # << >>
  /\ Head(completions).signal \in {"CompletedFrame", "HashAlreadyBeingCached"}

\* C19: with workers that always finish, (a) when a worker has signalled
\* completion or skip while the queue is not empty and a viewer is attached,
\* the time point at the head of the queue is eventually handed to a worker,
\* and (b) every queued time point is eventually handed to a worker; unless
\* the environment keeps acting for ever (invalidations that keep putting
\* points before a queued one, the viewer attached again and again).
C19_QueuedPointsDispatched ==
  \/ []<><<ProgressEnvironment>>_vars
  \/ \A t \in Times :
       /\ ( /\ WorkerHasSignalled
            /\ viewer_node_ # NoNode
            /\ cache_queue_ # << >>
            /\ Head(cache_queue_) = t ) ~> (call.dispatched = t)
       /\ (viewer_node_ # NoNode /\ t \in Range(cache_queue_))
            ~> (call.dispatched = t)

\* The jobs handed to a worker and not yet reported back to the backend: the
\* invocations waiting in the workers' event queues, the jobs the workers are
\* in, and the signals of completion or skip waiting for the backend's thread.
OutstandingJobs ==
  Cardinality({ ik \in (1 .. Len(processors_)) \X (1 .. MaxInbox) :
                  ik[2] <= Len(processors_[ik[1]].inbox) })
    + Cardinality({ i \in 1 .. Len(processors_) : processors_[i].working })
    + Len(completions)

PoolBefore(w) ==
  [processors_' EXCEPT ![w].inbox = SubSeq(@, 1, Len(@) - 1)]

\* Worker w of the pool is the one the claim names: the lowest-index worker
\* that reports available, the last worker if none does.
LowestAvailableOrLast(pool, w) ==
  IF \E i \in 1 .. Len(pool) : IsAvailable(pool[i])
    THEN IsAvailable(pool[w]) /\ \A i \in 1 .. (w - 1) : ~IsAvailable(pool[i])
    ELSE w = Len(pool)

\* C22: a step that dispatches time point t takes t from the head of the
\* queue and puts Render(t) into the event queue of exactly one worker,
\* the lowest-index worker that reports available, or the last worker of the
\* pool if none reports available; every other worker is left as it was.
C22_HandedToFirstAvailableOrLast ==
  [][ call'.dispatched # NoTime =>
        /\ call'.dispatched \notin Range(cache_queue_')
        /\ \E w \in 1 .. Len(processors_') :
             /\ processors_'[w].inbox # << >>
             /\ processors_'[w].inbox[Len(processors_'[w].inbox)]
                  = RenderJob(call'.dispatched)
             /\ LowestAvailableOrLast(PoolBefore(w), w)
             /\ IF processors_ # << >>
                  THEN PoolBefore(w) = processors_
                  ELSE \A i \in 1 .. Len(processors_') :
                         PoolBefore(w)[i].inbox = << >> ]_vars

\* A dispatch has found every worker in a job: the last worker of the pool,
\* in its job, has the time point in its event queue.
C22_Witness ==
  /\ call.dispatched # NoTime
  /\ \A i \in 1 .. Len(processors_) : processors_[i].working
  /\ processors_ # << >>
  /\ processors_[Len(processors_)].inbox = << RenderJob(call.dispatched) >>

\* C23: a Render or RenderAsSibling request is handed only to a worker that is
\* idle: no worker has a request waiting in its event queue while an earlier
\* request sent to it is still waiting or running.
C23_RequestsOnlyToIdleWorkers ==
  \A i \in 1 .. Len(processors_) :
    Len(processors_[i].inbox) + (IF processors_[i].working THEN 1 ELSE 0) <= 1

\* Range outer contains range inner: every cached value that overlaps inner
\* overlaps outer.
Covers(outer, inner) == outer[1] <= inner[1] /\ inner[2] <= outer[2]

\* C24: no invalidated range is lost before the next dispatch.  (a) While a
\* value update is pending, a further InvalidateCache leaves pending a range
\* that contains the one that was pending; (b) the dispatch that finds a value
\* update pending drops the snapshot's cached values for the pending range.
C24_NoInvalidatedRangeLost ==
  /\ [][ value_update_queued_ /\ value_update_queued_'
           => Covers(value_update_range_', value_update_range_) ]_vars
  /\ [][ value_update_queued_ /\ call'.dispatched # NoTime
           => /\ call'.refreshed # NoRange
              /\ Covers(call'.refreshed, value_update_range_) ]_vars

\* The live graph under viewer v: the root and all its dependencies.
LiveGraph(v) == << v >> \o GetDependencies(v)

\* C25: queuing a recompile sets the request and leaves the snapshot alone;
\* the next Compile() clears the request, copies the root and each of its
\* dependencies once, and when it succeeds the snapshot is that copy of the
\* live graph and nothing else.
C25_RecompileRebuildsSnapshot ==
  [][ /\ call'.op = "QueueRecompile"
           => recompile_queued_' /\ UNCHANGED << snapshot_vars, compiled_ >>
      /\ call'.op = "Compile" /\ recompile_queued_
           => /\ ~recompile_queued_'
              /\ call'.copied = Len(LiveGraph(viewer_node_))
              /\ compiled_'
                   => /\ source_node_list_' = LiveGraph(viewer_node_)
                      /\ copied_graph_'
                           = [i \in 1 .. Len(LiveGraph(viewer_node_))
                                |-> CopyOf(LiveGraph(viewer_node_)[i])]
                      /\ copied_viewer_node_' = CopyOf(viewer_node_) ]_vars

\* C27: whenever the backend is not compiled the snapshot is empty: no source
\* node, no copied node, no copied root; also after a Compile() whose
\* CompileInternal failed.
C27_UncompiledSnapshotEmpty ==
  ~compiled_ =>
    /\ source_node_list_ = << >>
    /\ copied_graph_ = << >>
    /\ copied_viewer_node_ = NoNode

\* C26: after SetParameters(p) the active parameters are p, every worker of
\* the pool holds p, the cache ID is the hash of p, the cache name and the
\* creation timestamp and the frame cache is bound to it; the cache ID is
\* empty exactly when the name is empty, the timestamp is zero or p is invalid.
C26_SetParametersPropagates ==
  [][ call'.op = "SetParameters" =>
        LET p == call'.arg
            no_id == cache_name_ = NameEmpty \/ cache_time_ = 0 \/ ~ParamsValid(p)
        IN  /\ params_' = p
            /\ Len(processors_') = Len(processors_)
            /\ \A i \in 1 .. Len(processors_') : processors_'[i].params = p
            /\ cache_id_' = IF no_id THEN EmptyId
                            ELSE GenerateCacheIDInternal(p) \o cache_name_
                                   \o NumberToUtf8(cache_time_)
            /\ frame_cache_'.id = cache_id_'
            /\ (cache_id_' = EmptyId) <=> no_id ]_vars

\* SetParameters has replaced the parameters the workers of the pool held,
\* and the cache ID is not empty.
C26_Witness ==
  /\ call.op = "SetParameters"
  /\ processors_ # << >>
  /\ call.arg # MkParams(ViewerVideoParams(viewer_node_)[1],
                         ViewerVideoParams(viewer_node_)[2],
                         PixFmtRGBA16F, ViewerDivider)
  /\ cache_id_ # EmptyId

\* C28: a time point that leaves the queue has been handed to a worker: when
\* the dispatch cannot happen (Compile fails, no worker in the pool) the time
\* point is still in the queue afterwards.
C28_PoppedPointIsDispatched ==
  [][ \A t \in Range(cache_queue_) :
        t \notin Range(cache_queue_') => call'.dispatched = t ]_vars

\* C29: every entry of the cache queue (a range (t, t)) lies in the sequence:
\* 0 <= t <= SequenceLength(), in every state, also after the sequence has
\* become shorter or the viewer has been detached.
C29_QueueWithinSequence ==
  \A t \in Range(cache_queue_) : 0 <= t /\ t <= SequenceLength(Backend)

\* C30: while a worker is in a job (primary or sibling) that evaluates the
\* compiled snapshot, no operation discards the snapshot: it stays compiled
\* and its nodes stay the same.
C30_SnapshotKeptWhileJobInFlight ==
  [][ (compiled_ /\ \E i \in 1 .. Len(processors_) : processors_[i].working)
        => compiled_' /\ copied_graph_' = copied_graph_ ]_vars

\* C31: the value refresh of a dispatch (UpdateNodeInputs) never runs on the
\* source node list of a compiled snapshot for which a recompile is pending:
\* the graph has changed since the snapshot was compiled, and the recompile
\* comes before the refresh.
C31_RefreshAfterRecompile ==
  [][ call'.refreshed # NoRange => ~(compiled_ /\ recompile_queued_) ]_vars

\* C32: Close() leaves no dispatch marked as in flight, and so, on an
\* initialized backend with a viewer attached and no job with a worker or
\* waiting to be reported, an InvalidateCache that queues a point dispatches.
C32_CloseClearsInFlight ==
  [][ /\ call'.op = "Close" => ~caching_'
      /\ ( /\ call'.op = "InvalidateCache"
           /\ call'.points # {}
           /\ started_
           /\ viewer_node_ # NoNode
           /\ OutstandingJobs = 0 ) => call'.dispatched # NoTime ]_vars

\* C33: when SetViewerNode replaces an attached viewer by another one, or
\* detaches it, nothing queued or pending for the previous viewer survives:
\* the queue is empty, no recompile and no value refresh is pending.
C33_NothingSurvivesViewerChange ==
  [][ ( /\ call'.op = "SetViewerNode"
        /\ viewer_node_ # NoNode
        /\ viewer_node_' # viewer_node_ )
        => /\ cache_queue_' = << >>
           /\ ~recompile_queued_'
           /\ ~value_update_queued_' ]_vars

\* C34: in every state the source node list and the copied graph have the
\* same length, the copy at index i is the copy of the source at index i, and
\* when they are not empty their first entries are the viewer and its copy,
\* the copied viewer.
C34_SnapshotMirrorsSources ==
  /\ Len(source_node_list_) = Len(copied_graph_)
  /\ \A i \in 1 .. Len(source_node_list_) :
       i <= Len(copied_graph_) => copied_graph_[i] = CopyOf(source_node_list_[i])
  /\ source_node_list_ # << >>
       => /\ source_node_list_[1] = viewer_node_
          /\ copied_graph_ # << >>
          /\ copied_viewer_node_ = copied_graph_[1]

=============================================================================
